---- MODULE Spec2Model ----
(***************************************************************************)
(* A model of YoutubeApp (src/universal_mcp_youtube/app.py): 46 operations *)
(* that validate required parameters, build a query mapping, call the      *)
(* inherited HTTP client once and decode the response, plus get_captions,  *)
(* which asks a transcript collaborator for snippets and joins their text. *)
(*                                                                         *)
(* Every invocation runs on a thread of its own; its parameters and local  *)
(* variables are indexed by the thread.  The only instance attribute the   *)
(* class sets is base_url.                                                 *)
(***************************************************************************)
EXTENDS Integers, Sequences, FiniteSets, TLC

(***************************************************************************)
(* Bounds of the model.                                                    *)
(***************************************************************************)
\* At most this many optional arguments of one call are given a value.
MaxProvided == 1
\* A fetched transcript has at most this many snippets.
MaxSnippets == 3

\* The threads of the caller, and the one a sequential caller uses.
Threads == {"T1", "T2"}
MainThread == "T1"

(***************************************************************************)
(* Python values: a type name and the text str() gives for the value.      *)
(***************************************************************************)
PyVal(type, s) == [type |-> type, s |-> s]
None  == PyVal("NoneType", "None")
PyStr(s) == PyVal("str", s)
PyInt(s) == PyVal("int", s)
PyBool(s) == PyVal("bool", s)

\* bool(v) for the values of the model
Truthy(v) ==
    CASE v.type = "NoneType" -> FALSE
      [] v.type = "str" -> v.s # ""
      [] v.type = "int" -> v.s # "0"
      [] v.type = "bool" -> v.s = "True"
      [] OTHER -> TRUE

\* What an f-string field {v} contributes: format(v, ""), that is str(v).
Format(v) == v.s

\* Values a caller passes for a required parameter, for an optional one.
RequiredValues == {None, PyStr(""), PyStr("j1")}
OptionalValues == {PyBool("False"), PyInt("0"), PyStr(""), PyStr("UC1")}

(***************************************************************************)
(* The operations: their parameters, URL, client method and the way they   *)
(* treat the response, one row per method of YoutubeApp.                   *)
(***************************************************************************)
\* The operation methods the class defines, in the order of their `def`s.
Methods ==
    <<"get_jobs_job_reports", "get_jobs_job_reports_report", "delete_jobs_job",
      "get_jobs", "get_media_resource_name", "get_reporttypes", "delete_captions",
      "get_captions", "delete_comments", "add_comments_mark_as_spam",
      "add_comments_set_moderation_status", "delete_live_broadcasts",
      "add_live_broadcasts_bind", "add_live_broadcasts_control",
      "add_live_broadcasts_transition", "delete_live_chat_bans",
      "delete_live_chat_messages", "delete_live_chat_moderators", "delete_videos",
      "get_videos_get_rating", "add_videos_rate", "add_videos_report_abuse",
      "add_watermarks_set", "add_watermarks_unset", "get_activities",
      "add_channel_banners_insert", "delete_channel_sections", "get_channels",
      "get_comment_threads", "get_fanfundingevents", "get_guecategories",
      "get_languages", "get_regions", "delete_livestreams", "delete_play_list_items",
      "delete_playlists", "get_search", "get_sponsors", "delete_subscriptions",
      "get_superchatevents", "add_thumbnails_set", "get_video_abuse_report_reasons",
      "get_veocategories", "delete_groupitems", "delete_groups", "get_reports">>

\* A variant of the list that lacks get_captions, the one method that does
\* not call the HTTP client.
list_tools_without_captions ==
    SelectSeq(Methods, LAMBDA m : m # "get_captions")

\* The list that list_tools returns (self.<name> for each name).
list_tools ==
    <<"get_jobs_job_reports", "get_jobs_job_reports_report", "delete_jobs_job",
      "get_jobs", "get_media_resource_name", "get_reporttypes", "delete_captions",
      "get_captions", "delete_comments", "add_comments_mark_as_spam",
      "add_comments_set_moderation_status", "delete_live_broadcasts",
      "add_live_broadcasts_bind", "add_live_broadcasts_control",
      "add_live_broadcasts_transition", "delete_live_chat_bans",
      "delete_live_chat_messages", "delete_live_chat_moderators", "delete_videos",
      "get_videos_get_rating", "add_videos_rate", "add_videos_report_abuse",
      "add_watermarks_set", "add_watermarks_unset", "get_activities",
      "add_channel_banners_insert", "delete_channel_sections", "get_channels",
      "get_comment_threads", "get_fanfundingevents", "get_guecategories",
      "get_languages", "get_regions", "delete_livestreams", "delete_play_list_items",
      "delete_playlists", "get_search", "get_sponsors", "delete_subscriptions",
      "get_superchatevents", "add_thumbnails_set", "get_video_abuse_report_reasons",
      "get_veocategories", "delete_groupitems", "delete_groups", "get_reports">>

Required(op) ==
    CASE op \in {"get_jobs_job_reports", "delete_jobs_job"} ->
          <<"jobId">>
      [] op = "get_jobs_job_reports_report" ->
          <<"jobId", "reportId">>
      [] op \in {"get_jobs", "get_reporttypes", "delete_captions", "delete_comments",
              "add_comments_mark_as_spam", "add_comments_set_moderation_status",
              "delete_live_broadcasts", "add_live_broadcasts_bind",
              "add_live_broadcasts_control", "add_live_broadcasts_transition",
              "delete_live_chat_bans", "delete_live_chat_messages",
              "delete_live_chat_moderators", "delete_videos", "get_videos_get_rating",
              "add_videos_rate", "add_videos_report_abuse", "add_watermarks_set",
              "add_watermarks_unset", "get_activities", "add_channel_banners_insert",
              "delete_channel_sections", "get_channels", "get_comment_threads",
              "get_fanfundingevents", "get_guecategories", "get_languages", "get_regions",
              "delete_livestreams", "delete_play_list_items", "delete_playlists", "get_search",
              "get_sponsors", "delete_subscriptions", "get_superchatevents",
              "add_thumbnails_set", "get_video_abuse_report_reasons", "get_veocategories",
              "delete_groupitems", "delete_groups", "get_reports"} ->
          <<>>
      [] op = "get_media_resource_name" ->
          <<"resourceName">>
      [] op = "get_captions" ->
          <<"video_id">>
      [] op = "list_tools" ->
          <<>>

Optional(op) ==
    CASE op = "get_jobs_job_reports" ->
          <<"createdAfter", "onBehalfOfContentOwner", "pageSize", "pageToken",
            "startTimeAtOrAfter", "startTimeBefore">>
      [] op \in {"get_jobs_job_reports_report", "delete_jobs_job", "add_videos_report_abuse"} ->
          <<"onBehalfOfContentOwner">>
      [] op \in {"get_jobs", "get_reporttypes"} ->
          <<"includeSystemManaged", "onBehalfOfContentOwner", "pageSize", "pageToken">>
      [] op \in {"get_media_resource_name", "get_captions", "list_tools"} ->
          <<>>
      [] op = "delete_captions" ->
          <<"id", "onBehalfOf", "onBehalfOfContentOwner">>
      [] op \in {"delete_comments", "add_comments_mark_as_spam", "delete_live_chat_bans",
              "delete_live_chat_messages", "delete_live_chat_moderators",
              "delete_subscriptions"} ->
          <<"id">>
      [] op = "add_comments_set_moderation_status" ->
          <<"banAuthor", "id", "moderationStatus">>
      [] op \in {"delete_live_broadcasts", "delete_livestreams"} ->
          <<"id", "onBehalfOfContentOwner", "onBehalfOfContentOwnerChannel">>
      [] op = "add_live_broadcasts_bind" ->
          <<"id", "onBehalfOfContentOwner", "onBehalfOfContentOwnerChannel", "part",
            "streamId">>
      [] op = "add_live_broadcasts_control" ->
          <<"displaySlate", "id", "offsetTimeMs", "onBehalfOfContentOwner",
            "onBehalfOfContentOwnerChannel", "part", "walltime">>
      [] op = "add_live_broadcasts_transition" ->
          <<"broadcastStatus", "id", "onBehalfOfContentOwner",
            "onBehalfOfContentOwnerChannel", "part">>
      [] op \in {"delete_videos", "get_videos_get_rating", "delete_channel_sections",
              "delete_play_list_items", "delete_playlists", "delete_groupitems",
              "delete_groups"} ->
          <<"id", "onBehalfOfContentOwner">>
      [] op = "add_videos_rate" ->
          <<"id", "rating">>
      [] op \in {"add_watermarks_set", "add_watermarks_unset", "add_channel_banners_insert"} ->
          <<"channelId", "onBehalfOfContentOwner">>
      [] op = "get_activities" ->
          <<"channelId", "home", "maxResults", "mine", "pageToken", "part", "publishedAfter",
            "publishedBefore", "regionCode">>
      [] op = "get_channels" ->
          <<"categoryId", "forUsername", "hl", "id", "managedByMe", "maxResults", "mine",
            "mySubscribers", "onBehalfOfContentOwner", "pageToken", "part">>
      [] op = "get_comment_threads" ->
          <<"allThreadsRelatedToChannelId", "channelId", "id", "maxResults",
            "moderationStatus", "order", "pageToken", "part", "searchTerms", "textFormat",
            "videoId">>
      [] op \in {"get_fanfundingevents", "get_superchatevents"} ->
          <<"hl", "maxResults", "pageToken", "part">>
      [] op \in {"get_guecategories", "get_veocategories"} ->
          <<"hl", "id", "part", "regionCode">>
      [] op \in {"get_languages", "get_regions", "get_video_abuse_report_reasons"} ->
          <<"hl", "part">>
      [] op = "get_search" ->
          <<"channelId", "channelType", "eventType", "forContentOwner", "forDeveloper",
            "forMine", "location", "locationRadius", "maxResults", "onBehalfOfContentOwner",
            "order", "pageToken", "part", "publishedAfter", "publishedBefore", "q",
            "regionCode", "relatedToVideoId", "relevanceLanguage", "safeSearch", "topicId",
            "type", "videoCaption", "videoCategoryId", "videoDefinition", "videoDimension",
            "videoDuration", "videoEmbeddable", "videoLicense", "videoSyndicated",
            "videoType">>
      [] op = "get_sponsors" ->
          <<"filter", "maxResults", "pageToken", "part">>
      [] op = "add_thumbnails_set" ->
          <<"onBehalfOfContentOwner", "videoId">>
      [] op = "get_reports" ->
          <<"currency", "dimensions", "end", "filters", "ids", "include", "max", "metrics",
            "sort", "start">>

UrlTemplate(op) ==
    CASE op = "get_jobs_job_reports" ->
          <<<<"attr", "base_url">>, <<"lit", "/v1/jobs/">>, <<"param", "jobId">>, <<"lit", "/reports">>>>
      [] op = "get_jobs_job_reports_report" ->
          <<<<"attr", "base_url">>, <<"lit", "/v1/jobs/">>, <<"param", "jobId">>, <<"lit", "/reports/">>, <<"param", "reportId">>>>
      [] op = "delete_jobs_job" ->
          <<<<"attr", "base_url">>, <<"lit", "/v1/jobs/">>, <<"param", "jobId">>>>
      [] op = "get_jobs" ->
          <<<<"attr", "base_url">>, <<"lit", "/v1/jobs">>>>
      [] op = "get_media_resource_name" ->
          <<<<"attr", "base_url">>, <<"lit", "/v1/media/">>, <<"param", "resourceName">>>>
      [] op = "get_reporttypes" ->
          <<<<"attr", "base_url">>, <<"lit", "/v1/reportTypes">>>>
      [] op = "delete_captions" ->
          <<<<"attr", "base_url">>, <<"lit", "/captions">>>>
      [] op = "get_captions" ->
          <<>>
      [] op = "delete_comments" ->
          <<<<"attr", "base_url">>, <<"lit", "/comments">>>>
      [] op = "add_comments_mark_as_spam" ->
          <<<<"attr", "base_url">>, <<"lit", "/comments/markAsSpam">>>>
      [] op = "add_comments_set_moderation_status" ->
          <<<<"attr", "base_url">>, <<"lit", "/comments/setModerationStatus">>>>
      [] op = "delete_live_broadcasts" ->
          <<<<"attr", "base_url">>, <<"lit", "/liveBroadcasts">>>>
      [] op = "add_live_broadcasts_bind" ->
          <<<<"attr", "base_url">>, <<"lit", "/liveBroadcasts/bind">>>>
      [] op = "add_live_broadcasts_control" ->
          <<<<"attr", "base_url">>, <<"lit", "/liveBroadcasts/control">>>>
      [] op = "add_live_broadcasts_transition" ->
          <<<<"attr", "base_url">>, <<"lit", "/liveBroadcasts/transition">>>>
      [] op = "delete_live_chat_bans" ->
          <<<<"attr", "base_url">>, <<"lit", "/liveChat/bans">>>>
      [] op = "delete_live_chat_messages" ->
          <<<<"attr", "base_url">>, <<"lit", "/liveChat/messages">>>>
      [] op = "delete_live_chat_moderators" ->
          <<<<"attr", "base_url">>, <<"lit", "/liveChat/moderators">>>>
      [] op = "delete_videos" ->
          <<<<"attr", "base_url">>, <<"lit", "/videos">>>>
      [] op = "get_videos_get_rating" ->
          <<<<"attr", "base_url">>, <<"lit", "/videos/getRating">>>>
      [] op = "add_videos_rate" ->
          <<<<"attr", "base_url">>, <<"lit", "/videos/rate">>>>
      [] op = "add_videos_report_abuse" ->
          <<<<"attr", "base_url">>, <<"lit", "/videos/reportAbuse">>>>
      [] op = "add_watermarks_set" ->
          <<<<"attr", "base_url">>, <<"lit", "/watermarks/set">>>>
      [] op = "add_watermarks_unset" ->
          <<<<"attr", "base_url">>, <<"lit", "/watermarks/unset">>>>
      [] op = "get_activities" ->
          <<<<"attr", "base_url">>, <<"lit", "/activities">>>>
      [] op = "add_channel_banners_insert" ->
          <<<<"attr", "base_url">>, <<"lit", "/channelBanners/insert">>>>
      [] op = "delete_channel_sections" ->
          <<<<"attr", "base_url">>, <<"lit", "/channelSections">>>>
      [] op = "get_channels" ->
          <<<<"attr", "base_url">>, <<"lit", "/channels">>>>
      [] op = "get_comment_threads" ->
          <<<<"attr", "base_url">>, <<"lit", "/commentThreads">>>>
      [] op = "get_fanfundingevents" ->
          <<<<"attr", "base_url">>, <<"lit", "/fanFundingEvents">>>>
      [] op = "get_guecategories" ->
          <<<<"attr", "base_url">>, <<"lit", "/guideCategories">>>>
      [] op = "get_languages" ->
          <<<<"attr", "base_url">>, <<"lit", "/i18nLanguages">>>>
      [] op = "get_regions" ->
          <<<<"attr", "base_url">>, <<"lit", "/i18nRegions">>>>
      [] op = "delete_livestreams" ->
          <<<<"attr", "base_url">>, <<"lit", "/liveStreams">>>>
      [] op = "delete_play_list_items" ->
          <<<<"attr", "base_url">>, <<"lit", "/playlistItems">>>>
      [] op = "delete_playlists" ->
          <<<<"attr", "base_url">>, <<"lit", "/playlists">>>>
      [] op = "get_search" ->
          <<<<"attr", "base_url">>, <<"lit", "/search">>>>
      [] op = "get_sponsors" ->
          <<<<"attr", "base_url">>, <<"lit", "/sponsors">>>>
      [] op = "delete_subscriptions" ->
          <<<<"attr", "base_url">>, <<"lit", "/subscriptions">>>>
      [] op = "get_superchatevents" ->
          <<<<"attr", "base_url">>, <<"lit", "/superChatEvents">>>>
      [] op = "add_thumbnails_set" ->
          <<<<"attr", "base_url">>, <<"lit", "/thumbnails/set">>>>
      [] op = "get_video_abuse_report_reasons" ->
          <<<<"attr", "base_url">>, <<"lit", "/videoAbuseReportReasons">>>>
      [] op = "get_veocategories" ->
          <<<<"attr", "base_url">>, <<"lit", "/videoCategories">>>>
      [] op = "delete_groupitems" ->
          <<<<"attr", "base_url">>, <<"lit", "/groupItems">>>>
      [] op = "delete_groups" ->
          <<<<"attr", "base_url">>, <<"lit", "/groups">>>>
      [] op = "get_reports" ->
          <<<<"attr", "base_url">>, <<"lit", "/reports">>>>

ClientMethod(op) ==
    CASE op \in {"get_jobs_job_reports", "get_jobs_job_reports_report", "get_jobs",
              "get_media_resource_name", "get_reporttypes", "get_videos_get_rating",
              "get_activities", "get_channels", "get_comment_threads", "get_fanfundingevents",
              "get_guecategories", "get_languages", "get_regions", "get_search",
              "get_sponsors", "get_superchatevents", "get_video_abuse_report_reasons",
              "get_veocategories", "get_reports"} ->
          "_get"
      [] op \in {"delete_jobs_job", "delete_captions", "delete_comments",
              "delete_live_broadcasts", "delete_live_chat_bans", "delete_live_chat_messages",
              "delete_live_chat_moderators", "delete_videos", "delete_channel_sections",
              "delete_livestreams", "delete_play_list_items", "delete_playlists",
              "delete_subscriptions", "delete_groupitems", "delete_groups"} ->
          "_delete"
      [] op = "get_captions" ->
          "none"
      [] op \in {"add_comments_mark_as_spam", "add_comments_set_moderation_status",
              "add_live_broadcasts_bind", "add_live_broadcasts_control",
              "add_live_broadcasts_transition", "add_videos_rate", "add_videos_report_abuse",
              "add_watermarks_set", "add_watermarks_unset", "add_channel_banners_insert",
              "add_thumbnails_set"} ->
          "_post"

ResponseHandling(op) ==
    CASE op \in {"get_jobs_job_reports", "get_jobs_job_reports_report", "delete_jobs_job",
              "get_jobs", "get_media_resource_name", "get_reporttypes", "delete_captions",
              "add_comments_mark_as_spam", "add_comments_set_moderation_status",
              "delete_live_broadcasts", "add_live_broadcasts_bind",
              "add_live_broadcasts_control", "add_live_broadcasts_transition",
              "delete_live_chat_bans", "delete_live_chat_messages",
              "delete_live_chat_moderators", "delete_videos", "get_videos_get_rating",
              "add_videos_rate", "add_videos_report_abuse", "add_watermarks_set",
              "add_watermarks_unset", "get_activities", "add_channel_banners_insert",
              "delete_channel_sections", "get_channels", "get_comment_threads",
              "get_fanfundingevents", "get_guecategories", "get_languages", "get_regions",
              "delete_livestreams", "delete_play_list_items", "delete_playlists", "get_search",
              "get_sponsors", "delete_subscriptions", "get_superchatevents",
              "add_thumbnails_set", "get_video_abuse_report_reasons", "get_veocategories",
              "delete_groupitems", "delete_groups", "get_reports"} ->
          "raise_json"
      [] op = "get_captions" ->
          "transcript"
      [] op = "delete_comments" ->
          "handle_response"

\* The data argument of the client call: "{}" where the method passes
\* data={}, "absent" where it passes none.
ClientData(op) ==
    IF ClientMethod(op) = "_post" THEN "{}" ELSE "absent"

Range(s) == {s[i] : i \in DOMAIN s}

\* The operations of the class, as list_tools names them.
Ops == Range(list_tools)

\* The parameters in the signature of an operation.
Params(op) == Range(Required(op)) \cup Range(Optional(op))

(***************************************************************************)
(* The arguments of a call: a value for every required parameter, and a    *)
(* value other than None for at most MaxProvided optional parameters (the  *)
(* others keep their default, None).                                       *)
(***************************************************************************)
RECURSIVE KSubsets(_, _)
KSubsets(S, k) ==
    IF k = 0 THEN {{}}
    ELSE LET R == KSubsets(S, k - 1)
         IN  R \cup {T \cup {x} : T \in R, x \in S}

Arguments(op) ==
    { [p \in Params(op) |->
          IF p \in DOMAIN r THEN r[p]
          ELSE IF p \in DOMAIN f THEN f[p] ELSE None] :
        r \in [Range(Required(op)) -> RequiredValues],
        f \in UNION {[T -> OptionalValues] :
                        T \in KSubsets(Range(Optional(op)), MaxProvided)} }

(***************************************************************************)
(* Exceptions and outcomes.                                                *)
(***************************************************************************)
NoResponse == [status_code |-> 0, text |-> ""]

\* An exception: its class, str() of it, the response it carries (for an
\* HTTP status error) and the exception that was being handled when it was
\* raised (__context__), each of the last two as a sequence of length <= 1.
Exc(type, msg, resp, ctx) ==
    [type |-> type, msg |-> msg, response |-> resp, context |-> ctx]

NoOutcome == [kind |-> "none"]
Returned(v) == [kind |-> "return", value |-> v]
Raised(e) == [kind |-> "raise", exc |-> e]

(***************************************************************************)
(* The code of the methods, as operators.                                  *)
(***************************************************************************)
\* The chain `if <param> is None: raise ValueError(...)`: the first required
\* parameter, in the order of the checks, whose argument is None ("" if none).
\* A variant that checks the first required parameter only.
FirstMissingFirstOnly(req, a) ==
    IF req = <<>> THEN ""
    ELSE IF a[Head(req)] = None THEN Head(req) ELSE ""

\* A variant that runs the checks from the last parameter to the first.
RECURSIVE FirstMissingFromLast(_, _)
FirstMissingFromLast(req, a) ==
    IF req = <<>> THEN ""
    ELSE IF a[req[Len(req)]] = None THEN req[Len(req)]
    ELSE FirstMissingFromLast(SubSeq(req, 1, Len(req) - 1), a)

\* A variant whose checks test truth: `if not <param>`.
RECURSIVE FirstMissingIfFalsy(_, _)
FirstMissingIfFalsy(req, a) ==
    IF req = <<>> THEN ""
    ELSE IF ~Truthy(a[Head(req)]) THEN Head(req)
    ELSE FirstMissingIfFalsy(Tail(req), a)

RECURSIVE FirstMissing(_, _)
FirstMissing(req, a) ==
    IF req = <<>> THEN ""
    ELSE IF a[Head(req)] = None THEN Head(req)
    ELSE FirstMissing(Tail(req), a)

MissingMessage(p) == "Missing required parameter '" \o p \o "'"

\* A variant of the filter that tests truth: `if v`.
IsProvidedIfTruthy(v) == Truthy(v)

\* A variant of the filter that also drops the empty string.
IsProvidedIfNotEmpty(v) == v # None /\ v # PyStr("")

\* The filter of the dict comprehensions: `if v is not None`.
IsProvided(v) == v # None

\* {k: v for k, v in [(name, argument), ...] if v is not None}
RECURSIVE DictComp(_, _)
DictComp(keys, a) ==
    IF keys = <<>> THEN <<>>
    ELSE LET n == Len(keys)
             k == keys[n]
             d == DictComp(SubSeq(keys, 1, n - 1), a)
         IN  IF IsProvided(a[k]) THEN (k :> a[k]) @@ d ELSE d

\* A variant that formats the path alone, without self.base_url.
RECURSIVE FormatUrlNoBase(_, _, _)
FormatUrlNoBase(tmpl, a, base) ==
    IF tmpl = <<>> THEN ""
    ELSE LET seg == Head(tmpl)
             field == CASE seg[1] = "attr" -> ""
                        [] seg[1] = "lit" -> seg[2]
                        [] seg[1] = "param" -> Format(a[seg[2]])
         IN  field \o FormatUrlNoBase(Tail(tmpl), a, base)

\* url = f"{self.base_url}<path with {param} fields>"
RECURSIVE FormatUrl(_, _, _)
FormatUrl(tmpl, a, base) ==
    IF tmpl = <<>> THEN ""
    ELSE LET seg == Head(tmpl)
             field == CASE seg[1] = "attr" -> base
                        [] seg[1] = "lit" -> seg[2]
                        [] seg[1] = "param" -> Format(a[seg[2]])
         IN  field \o FormatUrl(Tail(tmpl), a, base)

\* A variant in which every method calls self._get.
RequestThroughGet(o, u, q) ==
    [method |-> "_get", url |-> u, params |-> q, data |-> "absent"]

\* The request a method hands to the client method it calls.
Request(o, u, q) ==
    [method |-> ClientMethod(o), url |-> u, params |-> q, data |-> ClientData(o)]

\* response.raise_for_status() raises for a status outside 200..299.
is_success(r) == r.status_code >= 200 /\ r.status_code <= 299

HTTPStatusError(r) ==
    Exc("HTTPStatusError", ToString(r.status_code), <<r>>, <<>>)

\* response.json(): the value a body decodes to; it raises for a body that
\* is not a JSON document, the empty body among them.
JsonDocuments == {"{\"items\": []}"}
json(text) ==
    CASE text = "{\"items\": []}" -> PyVal("dict", "{'items': []}")

JSONDecodeError ==
    Exc("JSONDecodeError", "Expecting value: line 1 column 1 (char 0)", <<>>, <<>>)

\* The two statements every method but delete_comments and get_captions
\* ends with: response.raise_for_status(); return response.json()
\* A variant that raises for 4xx and 5xx only.
RaiseForStatusErrorsOnly(r) ==
    IF r.status_code < 400 THEN NoOutcome ELSE Raised(HTTPStatusError(r))

RaiseForStatus(r) ==
    IF is_success(r) THEN NoOutcome ELSE Raised(HTTPStatusError(r))

\* A variant that returns the body as text, undecoded.
ReturnText(r) == Returned(PyStr(r.text))

ReturnJson(r) ==
    IF r.text \in JsonDocuments THEN Returned(json(r.text))
    ELSE Raised(JSONDecodeError)

\* self._handle_response(response), inherited from APIApplication: it raises
\* for a status that is not a success, returns the decoded body, and for a
\* body that does not decode returns a dict that describes the response.
HandleResponse(r) ==
    IF ~is_success(r) THEN Raised(HTTPStatusError(r))
    ELSE IF r.text \in JsonDocuments THEN Returned(json(r.text))
    ELSE Returned(PyVal("dict",
            "{'status': 'success', 'status_code': " \o ToString(r.status_code)
                \o ", 'text': '" \o r.text \o "'}"))

\* A variant that puts the separator after every item, the last too.
RECURSIVE JoinTrailing(_, _)
JoinTrailing(sep, texts) ==
    IF texts = <<>> THEN ""
    ELSE texts[1] \o sep \o JoinTrailing(sep, Tail(texts))

\* A variant that leaves the empty texts out.
RECURSIVE JoinSkipsEmpty(_, _)
JoinSkipsEmpty(sep, texts) ==
    IF texts = <<>> THEN ""
    ELSE LET rest == JoinSkipsEmpty(sep, Tail(texts))
         IN  IF texts[1] = "" THEN rest
             ELSE IF rest = "" THEN texts[1]
             ELSE texts[1] \o sep \o rest

\* ' '.join(texts)
RECURSIVE Join(_, _)
Join(sep, texts) ==
    IF texts = <<>> THEN ""
    ELSE IF Len(texts) = 1 THEN texts[1]
    ELSE texts[1] \o sep \o Join(sep, Tail(texts))

\* [snippet.text for snippet in transcript.snippets]
SnippetTexts(snippets) == [i \in DOMAIN snippets |-> snippets[i].text]

\* str.join raises TypeError at the first item that is not a str.
BadItems(texts) == {i \in DOMAIN texts : texts[i].type # "str"}
FirstBad(texts) == CHOOSE i \in BadItems(texts) : \A j \in BadItems(texts) : i <= j
JoinTypeError(texts) ==
    LET i == FirstBad(texts)
    IN  Exc("TypeError",
            "sequence item " \o ToString(i - 1) \o ": expected str instance, "
                \o texts[i].type \o " found", <<>>, <<>>)

\* A variant whose message leaves out the video id.
TranscriptErrorNoId(video_id, e) ==
    Exc("Exception", "Failed to retrieve transcript: " \o e.msg, <<>>, <<e>>)

\* except Exception as e: raise Exception(f"Failed ... {video_id}: {str(e)}")
TranscriptError(video_id, e) ==
    Exc("Exception",
        "Failed to retrieve transcript for video " \o Format(video_id) \o ": " \o e.msg,
        <<>>, <<e>>)

\* A variant that refuses a transcript without snippets.
JoinTranscriptRejectsEmpty(video_id, snippets) ==
    LET texts == SnippetTexts(snippets)
    IN  IF snippets = <<>>
        THEN Raised(TranscriptError(video_id,
                        Exc("ValueError", "empty transcript", <<>>, <<>>)))
        ELSE IF BadItems(texts) = {}
        THEN Returned(PyStr(Join(" ", [i \in DOMAIN texts |-> texts[i].s])))
        ELSE Raised(TranscriptError(video_id, JoinTypeError(texts)))

\* A variant in which the join stands after the try block, so that its
\* failure is not wrapped.
JoinTranscriptOutsideTry(video_id, snippets) ==
    LET texts == SnippetTexts(snippets)
    IN  IF BadItems(texts) = {}
        THEN Returned(PyStr(Join(" ", [i \in DOMAIN texts |-> texts[i].s])))
        ELSE Raised(JoinTypeError(texts))

\* The body of the try block once the transcript is fetched.
JoinTranscript(video_id, snippets) ==
    LET texts == SnippetTexts(snippets)
    IN  IF BadItems(texts) = {}
        THEN Returned(PyStr(Join(" ", [i \in DOMAIN texts |-> texts[i].s])))
        ELSE Raised(TranscriptError(video_id, JoinTypeError(texts)))

(***************************************************************************)
(* What the collaborators can answer.                                      *)
(***************************************************************************)
StatusCodes == {200, 204, 301, 404}
Bodies == {"", "{\"items\": []}"}
Responses == [status_code : StatusCodes, text : Bodies]

TransportError == Exc("ConnectError", "connection refused", <<>>, <<>>)

Texts == {PyStr("Hello"), PyStr("world"), PyStr(""), None}
Snippet(text, i) == [text |-> text, start |-> i, duration |-> 1]
Transcripts ==
    UNION { { [i \in 1..n |-> Snippet(f[i], i)] : f \in [1..n -> Texts] } :
            n \in 0..MaxSnippets }
FetchErrors ==
    { Exc("TranscriptsDisabled", "no captions", <<>>, <<>>),
      Exc("VideoUnavailable", "video unavailable", <<>>, <<>>) }

(***************************************************************************)
(* State.                                                                  *)
(***************************************************************************)
VARIABLES
    base_url,       \* self.base_url
    pc,             \* per thread: where its invocation stands
    op,             \* per thread: the method invoked ("" when idle)
    args,           \* per thread: the arguments of the call
    url,            \* per thread: the local url
    query_params,   \* per thread: the local query_params
    response,       \* per thread: the local response
    transcript,     \* per thread: the snippets of the local transcript
    outcome,        \* per thread: how the invocation ended
    sent,           \* per thread: the requests its invocation gave the client
    fetched,        \* per thread: the video ids its invocation asked the
                    \* transcript collaborator for
    steps,          \* per thread: the statements its invocation has executed
    prev            \* how the latest finished invocation on the instance ended

vars == <<base_url, pc, op, args, url, query_params, response, transcript,
          outcome, sent, fetched, steps, prev>>

locals == <<url, query_params, response, transcript>>

Init ==
    /\ base_url = "https://www.googleapis.com/youtube/v3"
    /\ pc = [t \in Threads |-> "idle"]
    /\ op = [t \in Threads |-> ""]
    /\ args = [t \in Threads |-> <<>>]
    /\ url = [t \in Threads |-> ""]
    /\ query_params = [t \in Threads |-> <<>>]
    /\ response = [t \in Threads |-> NoResponse]
    /\ transcript = [t \in Threads |-> <<>>]
    /\ outcome = [t \in Threads |-> NoOutcome]
    /\ sent = [t \in Threads |-> <<>>]
    /\ fetched = [t \in Threads |-> <<>>]
    /\ steps = [t \in Threads |-> <<>>]
    /\ prev = "none"

(***************************************************************************)
(* Actions: a call, then the statements of the method body in order.       *)
(***************************************************************************)
Did(t, s) == steps' = [steps EXCEPT ![t] = Append(@, s)]

Finish(t, o) ==
    /\ outcome' = [outcome EXCEPT ![t] = o]
    /\ pc' = [pc EXCEPT ![t] = "done"]

\* The caller invokes one of the methods in callable, with some arguments.
Invoke(t, callable) ==
    /\ pc[t] = "idle"
    /\ \E o \in callable : \E a \in Arguments(o) :
          /\ op' = [op EXCEPT ![t] = o]
          /\ args' = [args EXCEPT ![t] = a]
    /\ pc' = [pc EXCEPT ![t] = "validate"]
    /\ UNCHANGED <<base_url, locals, outcome, sent, fetched, steps, prev>>

\* A variant in which the check of get_captions sits inside its try block,
\* so that the except clause wraps the ValueError.
ValidateInsideTry(t) ==
    /\ pc[t] = "validate"
    /\ LET m == FirstMissing(Required(op[t]), args[t])
           e == Exc("ValueError", MissingMessage(m), <<>>, <<>>)
       IN  IF m # ""
           THEN Finish(t, Raised(IF ResponseHandling(op[t]) = "transcript"
                                 THEN TranscriptError(args[t][m], e) ELSE e))
           ELSE /\ pc' = [pc EXCEPT ![t] =
                            IF ResponseHandling(op[t]) = "transcript"
                            THEN "fetch" ELSE "build"]
                /\ UNCHANGED outcome
    /\ Did(t, "validate")
    /\ UNCHANGED <<base_url, op, args, locals, sent, fetched, prev>>

\* if <param> is None: raise ValueError("Missing required parameter '<param>'")
Validate(t) ==
    /\ pc[t] = "validate"
    /\ LET m == FirstMissing(Required(op[t]), args[t])
       IN  IF m # ""
           THEN Finish(t, Raised(Exc("ValueError", MissingMessage(m), <<>>, <<>>)))
           ELSE /\ pc' = [pc EXCEPT ![t] =
                            IF ResponseHandling(op[t]) = "transcript"
                            THEN "fetch" ELSE "build"]
                /\ UNCHANGED outcome
    /\ Did(t, "validate")
    /\ UNCHANGED <<base_url, op, args, locals, sent, fetched, prev>>

\* A variant that keeps the url it built in self.base_url.
BuildRequestStoresUrl(t) ==
    /\ pc[t] = "build"
    /\ url' = [url EXCEPT ![t] = FormatUrl(UrlTemplate(op[t]), args[t], base_url)]
    /\ base_url' = FormatUrl(UrlTemplate(op[t]), args[t], base_url)
    /\ query_params' = [query_params EXCEPT ![t] = DictComp(Optional(op[t]), args[t])]
    /\ pc' = [pc EXCEPT ![t] = "call"]
    /\ Did(t, "build")
    /\ UNCHANGED <<op, args, response, transcript, outcome, sent, fetched, prev>>

\* A variant that leaves self.base_url with a trailing slash for the calls
\* that follow.
BuildRequestNormalizesBase(t) ==
    /\ pc[t] = "build"
    /\ url' = [url EXCEPT ![t] = FormatUrl(UrlTemplate(op[t]), args[t], base_url)]
    /\ base_url' = "https://www.googleapis.com/youtube/v3/"
    /\ query_params' = [query_params EXCEPT ![t] = DictComp(Optional(op[t]), args[t])]
    /\ pc' = [pc EXCEPT ![t] = "call"]
    /\ Did(t, "build")
    /\ UNCHANGED <<op, args, response, transcript, outcome, sent, fetched, prev>>

\* A variant whose query mapping is built from all the parameters, the
\* required ones included.
BuildRequestQueryAllParams(t) ==
    /\ pc[t] = "build"
    /\ url' = [url EXCEPT ![t] = FormatUrl(UrlTemplate(op[t]), args[t], base_url)]
    /\ query_params' = [query_params EXCEPT ![t] =
                          DictComp(Required(op[t]) \o Optional(op[t]), args[t])]
    /\ pc' = [pc EXCEPT ![t] = "call"]
    /\ Did(t, "build")
    /\ UNCHANGED <<base_url, op, args, response, transcript, outcome, sent, fetched, prev>>

\* url = f"..."; query_params = {...}
BuildRequest(t) ==
    /\ pc[t] = "build"
    /\ url' = [url EXCEPT ![t] = FormatUrl(UrlTemplate(op[t]), args[t], base_url)]
    /\ query_params' = [query_params EXCEPT ![t] = DictComp(Optional(op[t]), args[t])]
    /\ pc' = [pc EXCEPT ![t] = "call"]
    /\ Did(t, "build")
    /\ UNCHANGED <<base_url, op, args, response, transcript, outcome, sent,
                   fetched, prev>>

\* A variant that sends the request a second time.
CallClientTwice(t) ==
    /\ pc[t] = "call"
    /\ sent' = [sent EXCEPT ![t] =
                  @ \o << Request(op[t], url[t], query_params[t]),
                          Request(op[t], url[t], query_params[t]) >>]
    /\ pc' = [pc EXCEPT ![t] = "await"]
    /\ Did(t, "call")
    /\ UNCHANGED <<base_url, op, args, locals, outcome, fetched, prev>>

\* A variant in which query_params is kept in one place shared by the
\* invocations instead of in a local of each.
CallClientSharedQuery(t) ==
    /\ pc[t] = "call"
    /\ sent' = [sent EXCEPT ![t] =
                  Append(@, Request(op[t], url[t], query_params[MainThread]))]
    /\ pc' = [pc EXCEPT ![t] = "await"]
    /\ Did(t, "call")
    /\ UNCHANGED <<base_url, op, args, locals, outcome, fetched, prev>>

\* response = self._get(url, params=query_params)   (or _post, _delete):
\* the request leaves.
CallClient(t) ==
    /\ pc[t] = "call"
    /\ sent' = [sent EXCEPT ![t] = Append(@, Request(op[t], url[t], query_params[t]))]
    /\ pc' = [pc EXCEPT ![t] = "await"]
    /\ Did(t, "call")
    /\ UNCHANGED <<base_url, op, args, locals, outcome, fetched, prev>>

\* A variant that goes on to decode the body without checking the status.
ClientReturnsUnchecked(t) ==
    /\ pc[t] = "await"
    /\ \E r \in Responses : response' = [response EXCEPT ![t] = r]
    /\ pc' = [pc EXCEPT ![t] = "decode"]
    /\ UNCHANGED <<base_url, op, args, url, query_params, transcript, outcome,
                   sent, fetched, steps, prev>>

\* The client returns a response.
ClientReturns(t) ==
    /\ pc[t] = "await"
    /\ \E r \in Responses : response' = [response EXCEPT ![t] = r]
    /\ pc' = [pc EXCEPT ![t] =
                IF ResponseHandling(op[t]) = "handle_response"
                THEN "handle" ELSE "status"]
    /\ UNCHANGED <<base_url, op, args, url, query_params, transcript, outcome,
                   sent, fetched, steps, prev>>

\* A variant that catches the failure of the client and sends the request
\* once more before giving up.
ClientRaisesRetriedOnce(t) ==
    /\ pc[t] = "await"
    /\ IF Len(sent[t]) < 2
       THEN /\ pc' = [pc EXCEPT ![t] = "call"]
            /\ UNCHANGED outcome
       ELSE Finish(t, Raised(TransportError))
    /\ UNCHANGED <<base_url, op, args, locals, sent, fetched, steps, prev>>

\* The client call itself raises; no statement of the method catches it.
ClientRaises(t) ==
    /\ pc[t] = "await"
    /\ Finish(t, Raised(TransportError))
    /\ UNCHANGED <<base_url, op, args, locals, sent, fetched, steps, prev>>

\* response.raise_for_status()
CheckStatus(t) ==
    /\ pc[t] = "status"
    /\ LET o == RaiseForStatus(response[t])
       IN  IF o.kind = "raise" THEN Finish(t, o)
           ELSE /\ pc' = [pc EXCEPT ![t] = "decode"]
                /\ UNCHANGED outcome
    /\ Did(t, "status")
    /\ UNCHANGED <<base_url, op, args, locals, sent, fetched, prev>>

\* return response.json()
DecodeBody(t) ==
    /\ pc[t] = "decode"
    /\ Finish(t, ReturnJson(response[t]))
    /\ Did(t, "decode")
    /\ UNCHANGED <<base_url, op, args, locals, sent, fetched, prev>>

\* return self._handle_response(response)
HandleResponseStep(t) ==
    /\ pc[t] = "handle"
    /\ Finish(t, HandleResponse(response[t]))
    /\ steps' = [steps EXCEPT ![t] =
                    IF is_success(response[t])
                    THEN @ \o <<"status", "decode">> ELSE Append(@, "status")]
    /\ UNCHANGED <<base_url, op, args, locals, sent, fetched, prev>>

\* api = YouTubeTranscriptApi(); transcript = api.fetch(video_id): the
\* request for the transcript leaves.
FetchTranscript(t) ==
    /\ pc[t] = "fetch"
    /\ fetched' = [fetched EXCEPT ![t] = Append(@, args[t]["video_id"])]
    /\ pc' = [pc EXCEPT ![t] = "fetching"]
    /\ Did(t, "fetch")
    /\ UNCHANGED <<base_url, op, args, locals, outcome, sent, prev>>

\* The transcript collaborator returns a transcript with some snippets.
FetchReturns(t) ==
    /\ pc[t] = "fetching"
    /\ \E snippets \in Transcripts :
          transcript' = [transcript EXCEPT ![t] = snippets]
    /\ pc' = [pc EXCEPT ![t] = "join"]
    /\ UNCHANGED <<base_url, op, args, url, query_params, response, outcome,
                   sent, fetched, steps, prev>>

\* A variant that asks the collaborator once more before giving up.
FetchRaisesRetriedOnce(t) ==
    /\ pc[t] = "fetching"
    /\ IF Len(fetched[t]) < 2
       THEN /\ pc' = [pc EXCEPT ![t] = "fetch"]
            /\ UNCHANGED outcome
       ELSE \E e \in FetchErrors :
                Finish(t, Raised(TranscriptError(args[t]["video_id"], e)))
    /\ UNCHANGED <<base_url, op, args, locals, sent, fetched, steps, prev>>

\* The transcript collaborator raises; the except clause raises in turn.
FetchRaises(t) ==
    /\ pc[t] = "fetching"
    /\ \E e \in FetchErrors :
          Finish(t, Raised(TranscriptError(args[t]["video_id"], e)))
    /\ UNCHANGED <<base_url, op, args, locals, sent, fetched, steps, prev>>

\* transcript_text = ' '.join([...]); return transcript_text
JoinSnippets(t) ==
    /\ pc[t] = "join"
    /\ Finish(t, JoinTranscript(args[t]["video_id"], transcript[t]))
    /\ Did(t, "join")
    /\ UNCHANGED <<base_url, op, args, locals, sent, fetched, prev>>

\* list_tools(): return [self.get_jobs_job_reports, ...]
ListTools(t) ==
    /\ pc[t] = "idle"
    /\ op' = [op EXCEPT ![t] = "list_tools"]
    /\ Finish(t, Returned(list_tools))
    /\ Did(t, "list_tools")
    /\ UNCHANGED <<base_url, args, locals, sent, fetched, prev>>

\* The caller has the outcome; the frame of the call is gone.
Return(t) ==
    /\ pc[t] = "done"
    /\ prev' = outcome[t].kind
    /\ pc' = [pc EXCEPT ![t] = "idle"]
    /\ op' = [op EXCEPT ![t] = ""]
    /\ args' = [args EXCEPT ![t] = <<>>]
    /\ url' = [url EXCEPT ![t] = ""]
    /\ query_params' = [query_params EXCEPT ![t] = <<>>]
    /\ response' = [response EXCEPT ![t] = NoResponse]
    /\ transcript' = [transcript EXCEPT ![t] = <<>>]
    /\ outcome' = [outcome EXCEPT ![t] = NoOutcome]
    /\ sent' = [sent EXCEPT ![t] = <<>>]
    /\ fetched' = [fetched EXCEPT ![t] = <<>>]
    /\ steps' = [steps EXCEPT ![t] = <<>>]
    /\ UNCHANGED base_url

\* One caller, one invocation at a time.
Next ==
    \/ Invoke(MainThread, Ops)
    \/ Validate(MainThread)
    \/ BuildRequest(MainThread)
    \/ CallClient(MainThread)
    \/ ClientReturns(MainThread)
    \/ ClientRaises(MainThread)
    \/ CheckStatus(MainThread)
    \/ DecodeBody(MainThread)
    \/ HandleResponseStep(MainThread)
    \/ FetchTranscript(MainThread)
    \/ FetchReturns(MainThread)
    \/ FetchRaises(MainThread)
    \/ JoinSnippets(MainThread)
    \/ ListTools(MainThread)
    \/ Return(MainThread)

Spec == Init /\ [][Next]_vars

\* Several invocations on the one instance at a time, their steps
\* interleaved: each thread of the caller runs one method body on its own
\* locals.
ConcurrentOps ==
    {"delete_videos", "delete_comments", "delete_subscriptions",
     "delete_live_chat_bans", "get_media_resource_name"}

NextConc ==
    \/ \E t \in Threads : Invoke(t, ConcurrentOps)
    \/ \E t \in Threads : Validate(t)
    \/ \E t \in Threads : BuildRequest(t)
    \/ \E t \in Threads : CallClient(t)
    \/ \E t \in Threads : ClientReturns(t)
    \/ \E t \in Threads : ClientRaises(t)
    \/ \E t \in Threads : CheckStatus(t)
    \/ \E t \in Threads : DecodeBody(t)
    \/ \E t \in Threads : HandleResponseStep(t)

SpecConc == Init /\ [][NextConc]_vars

(***************************************************************************)
(* Properties.                                                             *)
(***************************************************************************)
HttpOps == {o \in Ops : ClientMethod(o) # "none"}
IsHttpOp(o) == o \in Ops /\ ClientMethod(o) # "none"
Done(t) == pc[t] = "done"
MissingSome(t) ==
    op[t] # "" /\ \E p \in Range(Required(op[t])) : args[t][p] = None
ProvidedOptional(t) ==
    {p \in Range(Optional(op[t])) : args[t][p] # None}
IsMissingParameter(o, p) ==
    /\ o.kind = "raise"
    /\ o.exc.type = "ValueError"
    /\ o.exc.msg = "Missing required parameter '" \o p \o "'"
IsUpstreamError(o, r) ==
    /\ o.kind = "raise"
    /\ o.exc.type = "HTTPStatusError"
    /\ o.exc.response = <<r>>

\* C1: an invocation in which a required parameter is None ends with the
\* missing-parameter error (a ValueError whose message names a required
\* parameter that is None, the only one when just one is None), and at no
\* point of it has the HTTP client or the transcript collaborator been called.
C1_MissingParameterBeforeAnyCall ==
    \A t \in Threads :
        MissingSome(t) =>
            /\ sent[t] = <<>> /\ fetched[t] = <<>>
            /\ pc[t] \in {"validate", "done"}
            /\ Done(t) =>
                 \E p \in Range(Required(op[t])) :
                    /\ args[t][p] = None
                    /\ IsMissingParameter(outcome[t], p)

\* The second required parameter of get_jobs_job_reports_report alone is
\* None and the call has ended.
C1_Witness ==
    /\ Done(MainThread)
    /\ op[MainThread] = "get_jobs_job_reports_report"
    /\ args[MainThread]["jobId"] = PyStr("j1")
    /\ args[MainThread]["reportId"] = None
    /\ IsMissingParameter(outcome[MainThread], "reportId")

\* C2: the params mapping of every request handed to the HTTP client has as
\* keys exactly the optional parameters whose argument is not None, each
\* with the caller's value; no key has the value None.
C2_QueryIsExactlyTheProvided ==
    \A t \in Threads : \A i \in DOMAIN sent[t] :
        LET q == sent[t][i].params
        IN  /\ DOMAIN q = ProvidedOptional(t)
            /\ \A k \in DOMAIN q : q[k] = args[t][k] /\ q[k] # None

\* get_search has sent its request with q = '' given and the rest unset.
C2_Witness ==
    /\ op[MainThread] = "get_search"
    /\ args[MainThread]["q"] = PyStr("")
    /\ ProvidedOptional(MainThread) = {"q"}
    /\ Len(sent[MainThread]) = 1
    /\ sent[MainThread][1].params = [k \in {"q"} |-> PyStr("")]

\* C3: an invocation whose response has a status outside the success range
\* ends with the HTTP status error that carries that response (its status
\* code and body); it does not return a value.
C3_NonSuccessRaisesUpstream ==
    \A t \in Threads :
        (Done(t) /\ response[t] # NoResponse /\ ~is_success(response[t])) =>
            IsUpstreamError(outcome[t], response[t])

\* delete_videos has ended on a 301 response that carries a JSON body.
C3_Witness ==
    /\ Done(MainThread)
    /\ op[MainThread] = "delete_videos"
    /\ response[MainThread] = [status_code |-> 301, text |-> "{\"items\": []}"]
    /\ IsUpstreamError(outcome[MainThread], response[MainThread])

\* C4: an invocation of an HTTP endpoint whose response has a success status
\* and a JSON body returns the value that body decodes to, and nothing else.
C4_SuccessReturnsDecodedBody ==
    \A t \in Threads :
        (Done(t) /\ is_success(response[t])
                 /\ response[t].text = "{\"items\": []}") =>
            outcome[t] = [kind |-> "return",
                          value |-> [type |-> "dict", s |-> "{'items': []}"]]

\* get_reports has ended on a 200 response with a JSON body.
C4_Witness ==
    /\ Done(MainThread)
    /\ op[MainThread] = "get_reports"
    /\ response[MainThread] = [status_code |-> 200, text |-> "{\"items\": []}"]
    /\ outcome[MainThread].kind = "return"

\* The operations by the prefix of their name.
DeleteNamed ==
    {"delete_jobs_job", "delete_captions", "delete_comments",
     "delete_live_broadcasts", "delete_live_chat_bans",
     "delete_live_chat_messages", "delete_live_chat_moderators",
     "delete_videos", "delete_channel_sections", "delete_livestreams",
     "delete_play_list_items", "delete_playlists", "delete_subscriptions",
     "delete_groupitems", "delete_groups"}
AddNamed ==
    {"add_comments_mark_as_spam", "add_comments_set_moderation_status",
     "add_live_broadcasts_bind", "add_live_broadcasts_control",
     "add_live_broadcasts_transition", "add_videos_rate",
     "add_videos_report_abuse", "add_watermarks_set",
     "add_watermarks_unset", "add_channel_banners_insert",
     "add_thumbnails_set"}
GetNamed ==
    {"get_jobs_job_reports", "get_jobs_job_reports_report", "get_jobs",
     "get_media_resource_name", "get_reporttypes", "get_videos_get_rating",
     "get_activities", "get_channels", "get_comment_threads",
     "get_fanfundingevents", "get_guecategories", "get_languages",
     "get_regions", "get_search", "get_sponsors", "get_superchatevents",
     "get_video_abuse_report_reasons", "get_veocategories", "get_reports"}

\* C5: an invocation of an HTTP endpoint whose response has a status in the
\* success range returns a value and does not fail.  Stated for the case the
\* claim names: a DELETE operation whose response is 204 with an empty body
\* returns a value.
C5_DeleteNoContentReturns ==
    \A t \in Threads :
        (Done(t) /\ op[t] \in DeleteNamed
                 /\ response[t] = [status_code |-> 204, text |-> ""]) =>
            outcome[t].kind = "return"

\* C6: an invocation that fails ends in one of three kinds of error: a
\* required parameter is missing, the response has a non-success status, or
\* the transcript is unavailable; in particular none ends in a failure to
\* decode the body of a success response.  Stated for the invocations whose
\* collaborator call did not itself raise at the transport.
IsTranscriptUnavailable(o) ==
    /\ o.kind = "raise"
    /\ o.exc.type = "Exception"
    /\ o.exc.context # <<>>
C6_OnlyThreeKindsOfFailure ==
    \A t \in Threads :
        (Done(t) /\ outcome[t].kind = "raise"
                 /\ outcome[t].exc # TransportError) =>
            \/ \E p \in Range(Required(op[t])) : IsMissingParameter(outcome[t], p)
            \/ IsUpstreamError(outcome[t], response[t])
            \/ IsTranscriptUnavailable(outcome[t])

\* C7: an invocation of an HTTP endpoint that has passed the validation of
\* its parameters never has more than one request with the client, and has
\* exactly one from the call on, however it ends.
C7_ExactlyOneClientCall ==
    \A t \in Threads :
        /\ Len(sent[t]) <= 1
        /\ (pc[t] \in {"await", "status", "decode", "handle", "done"}
                /\ IsHttpOp(op[t]) /\ ~MissingSome(t)) =>
              Len(sent[t]) = 1

\* add_comments_mark_as_spam has ended in a failure to decode the body, with
\* one request sent.
C7_Witness ==
    /\ Done(MainThread)
    /\ op[MainThread] = "add_comments_mark_as_spam"
    /\ outcome[MainThread].kind = "raise"
    /\ outcome[MainThread].exc.type = "JSONDecodeError"
    /\ Len(sent[MainThread]) = 1

\* s1 + ' ' + s2 + ... + ' ' + sn, built from the left.
RECURSIVE SpacedTexts(_, _)
SpacedTexts(snippets, n) ==
    IF n = 0 THEN ""
    ELSE IF n = 1 THEN snippets[1].text.s
    ELSE SpacedTexts(snippets, n - 1) \o " " \o snippets[n].text.s

Joined(t) == Done(t) /\ op[t] = "get_captions" /\ "join" \in Range(steps[t])
AllTextsAreStrings(snippets) ==
    \A i \in DOMAIN snippets : snippets[i].text.type = "str"

\* C8: when the transcript collaborator returns the snippets s1..sn (their
\* texts strings), get_captions returns s1.text + ' ' + ... + ' ' + sn.text:
\* the texts in order, one space between two of them, none at either end.
C8_CaptionsJoinedBySingleSpace ==
    \A t \in Threads :
        (Joined(t) /\ AllTextsAreStrings(transcript[t])) =>
            /\ outcome[t].kind = "return"
            /\ outcome[t].value.type = "str"
            /\ outcome[t].value.s = SpacedTexts(transcript[t], Len(transcript[t]))

\* The snippets Hello, world have given 'Hello world'.
C8_Witness ==
    /\ Joined(MainThread)
    /\ Len(transcript[MainThread]) = 2
    /\ transcript[MainThread][1].text = PyStr("Hello")
    /\ transcript[MainThread][2].text = PyStr("world")
    /\ outcome[MainThread] = [kind |-> "return", value |-> PyStr("Hello world")]

\* The fetch was asked for and get_captions ended without joining: the
\* transcript collaborator raised.
FetchFailed(t) ==
    /\ Done(t) /\ op[t] = "get_captions"
    /\ fetched[t] # <<>> /\ ~("join" \in Range(steps[t]))

\* C9: when the transcript collaborator raises for a video id, get_captions
\* fails with an error whose message holds that video id and the message of
\* the original failure, and which has the original failure as its context;
\* it returns no string.
C9_FetchFailureIsWrapped ==
    \A t \in Threads :
        FetchFailed(t) =>
            /\ outcome[t].kind = "raise"
            /\ outcome[t].exc.type = "Exception"
            /\ \E e \in FetchErrors :
                  /\ outcome[t].exc.context = <<e>>
                  /\ outcome[t].exc.msg =
                        "Failed to retrieve transcript for video "
                            \o args[t]["video_id"].s \o ": " \o e.msg

\* The fetch for video j1 has raised "no captions".
C9_Witness ==
    /\ FetchFailed(MainThread)
    /\ args[MainThread]["video_id"] = PyStr("j1")
    /\ outcome[MainThread].kind = "raise"
    /\ outcome[MainThread].exc.msg =
          "Failed to retrieve transcript for video j1: no captions"

\* C10: every request goes through the client method of the verb in the
\* name of the operation (delete_* through _delete, add_* through _post,
\* get_* other than get_captions through _get) and no operation uses two
\* methods; every request through _post has the empty body {} as its data.
C10_DispatchByDeclaredVerb ==
    \A t \in Threads :
        /\ Cardinality({sent[t][i].method : i \in DOMAIN sent[t]}) <= 1
        /\ \A i \in DOMAIN sent[t] :
              /\ op[t] \in DeleteNamed \cup AddNamed \cup GetNamed
              /\ op[t] \in DeleteNamed => sent[t][i].method = "_delete"
              /\ op[t] \in AddNamed => sent[t][i].method = "_post"
              /\ op[t] \in GetNamed => sent[t][i].method = "_get"
              /\ sent[t][i].method = "_post" => sent[t][i].data = "{}"

\* delete_captions has sent its request through _delete.
C10_Witness ==
    /\ op[MainThread] = "delete_captions"
    /\ Len(sent[MainThread]) = 1
    /\ sent[MainThread][1].method = "_delete"

\* C11: list_tools returns every operation method the class defines (46 of
\* them, get_captions and delete_comments among them) exactly once, and
\* nothing that is not an operation method of the class.
C11_ListToolsIsEveryOperationOnce ==
    \A t \in Threads :
        (Done(t) /\ op[t] = "list_tools") =>
            /\ outcome[t].kind = "return"
            /\ LET tools == outcome[t].value
               IN  /\ Len(tools) = 46
                   /\ \A m \in Range(Methods) :
                         Cardinality({i \in DOMAIN tools : tools[i] = m}) = 1
                   /\ \A i \in DOMAIN tools : tools[i] \in Range(Methods)
                   /\ {"get_captions", "delete_comments"} \subseteq Range(tools)

\* list_tools has returned, after an earlier invocation that failed.
C11_Witness ==
    /\ Done(MainThread)
    /\ op[MainThread] = "list_tools"
    /\ outcome[MainThread].kind = "return"
    /\ Len(outcome[MainThread].value) = 46
    /\ prev = "raise"

\* C12: no invocation changes the state of the instance: whatever calls have
\* been made, and however they ended, base_url (the one attribute the class
\* sets) is still 'https://www.googleapis.com/youtube/v3'.
C12_InstanceStateUnchanged ==
    base_url = "https://www.googleapis.com/youtube/v3"

\* delete_groups has returned a value, after an earlier invocation that
\* failed.
C12_Witness ==
    /\ prev = "raise"
    /\ Done(MainThread)
    /\ op[MainThread] = "delete_groups"
    /\ outcome[MainThread].kind = "return"
    /\ base_url = "https://www.googleapis.com/youtube/v3"

\* The request and the result of an invocation as its own arguments and
\* its own response give them.
ExpectedRequest(o, a) ==
    [method |-> ClientMethod(o),
     url |-> FormatUrl(UrlTemplate(o), a, "https://www.googleapis.com/youtube/v3"),
     params |-> [k \in {p \in Range(Optional(o)) : a[p] # None} |-> a[k]],
     data |-> ClientData(o)]
ExpectedResult(o, r) ==
    IF ~is_success(r) THEN Raised(HTTPStatusError(r))
    ELSE IF ResponseHandling(o) = "handle_response" THEN HandleResponse(r)
    ELSE ReturnJson(r)
OwnRequest(t) ==
    \A i \in DOMAIN sent[t] : sent[t][i] = ExpectedRequest(op[t], args[t])
OwnResult(t) ==
    /\ (Done(t) /\ response[t] # NoResponse) =>
          outcome[t] = ExpectedResult(op[t], response[t])
    /\ (Done(t) /\ op[t] = "get_captions" /\ "join" \in Range(steps[t])) =>
          outcome[t] = JoinTranscript(args[t]["video_id"], transcript[t])

\* C13: whatever the earlier invocations were and however the latest one
\* ended, the request of an invocation is the one its own arguments give
\* and its result is the one its own response gives.
C13_IndependentOfHistory ==
    \A h \in {"none", "return", "raise"} :
        prev = h => (OwnRequest(MainThread) /\ OwnResult(MainThread))

\* get_channels has returned on its own response, after an earlier
\* invocation that failed.
C13_Witness ==
    /\ prev = "raise"
    /\ Done(MainThread)
    /\ op[MainThread] = "get_channels"
    /\ args[MainThread]["mine"] = PyBool("False")
    /\ Len(sent[MainThread]) = 1
    /\ sent[MainThread][1].url = "https://www.googleapis.com/youtube/v3/channels"
    /\ outcome[MainThread].kind = "return"

\* C14: with several invocations in progress at once and their steps
\* interleaved in any order, every invocation sends the request its own
\* arguments give, at most once, keeps in its locals the url and the query
\* mapping of its own arguments, and ends with the result of its own
\* response.
C14_ConcurrentInvocationsAreIndependent ==
    \A t \in Threads :
        /\ OwnRequest(t)
        /\ OwnResult(t)
        /\ Len(sent[t]) <= 1
        /\ pc[t] \in {"call", "await", "status", "decode", "handle"} =>
              /\ url[t] = ExpectedRequest(op[t], args[t]).url
              /\ query_params[t] = ExpectedRequest(op[t], args[t]).params

\* Two invocations were in progress together and each has ended on its
\* own response: delete_videos(id='UC1') returned the decoded body,
\* delete_comments(id='') failed on a 404.
C14_Witness ==
    /\ Done("T1") /\ Done("T2")
    /\ op["T1"] = "delete_videos" /\ op["T2"] = "delete_comments"
    /\ args["T1"]["id"] = PyStr("UC1") /\ args["T2"]["id"] = PyStr("")
    /\ sent["T1"][1].params # sent["T2"][1].params
    /\ response["T1"].status_code = 200 /\ response["T2"].status_code = 404
    /\ outcome["T1"].kind = "return" /\ outcome["T2"].kind = "raise"

\* The invocation of t is over, its request went out and no response ever
\* came back: the client call raised.
ClientFailed(t) ==
    /\ Done(t)
    /\ sent[t] # <<>>
    /\ response[t] = NoResponse

\* C15: when the HTTP client itself raises during the call, the invocation
\* ends right there with that failure: one request was sent, none was sent
\* again, no later step ran and nothing is returned.
C15_ClientFailureSurfacedImmediately ==
    \A t \in Threads :
        ClientFailed(t) =>
            /\ outcome[t] = Raised(TransportError)
            /\ Len(sent[t]) = 1
            /\ steps[t] = <<"validate", "build", "call">>

\* get_superchatevents has ended on a connection failure of the client.
C15_Witness ==
    /\ ClientFailed(MainThread)
    /\ op[MainThread] = "get_superchatevents"
    /\ outcome[MainThread].kind = "raise"
    /\ outcome[MainThread].exc.type = "ConnectError"

\* The DELETE endpoints that take the one optional parameter id.
SingleIdDeletes ==
    {o \in ConcurrentOps : ClientMethod(o) = "_delete" /\ Optional(o) = <<"id">>}

\* Two finished invocations end alike: the same returned value, or the same
\* kind of error.
SameOutcome(a, b) ==
    /\ a.kind = b.kind
    /\ a.kind = "return" => a.value = b.value
    /\ a.kind = "raise" => a.exc.type = b.exc.type

StepOrder == <<"validate", "build", "call", "status", "decode">>
IsPrefix(s, full) ==
    /\ Len(s) <= Len(full)
    /\ \A i \in DOMAIN s : s[i] = full[i]

\* C17: in every invocation of an HTTP operation the steps taken so far are
\* the first ones of validate, build, call, status, decode, in that order;
\* when the response is not a success the body is never decoded, and when
\* a required argument is None nothing is built or sent.
C17_StepsInFixedOrder ==
    \A t \in Threads :
        IsHttpOp(op[t]) =>
            /\ IsPrefix(steps[t], StepOrder)
            /\ (response[t] # NoResponse /\ ~is_success(response[t])) =>
                  ~("decode" \in Range(steps[t]))
            /\ MissingSome(t) =>
                  /\ IsPrefix(steps[t], <<"validate">>)
                  /\ query_params[t] = <<>>
                  /\ url[t] = ""
                  /\ sent[t] = <<>>

\* get_jobs_job_reports has ended on a 404: validated, built, called,
\* checked, and stopped before the decode.
C17_Witness ==
    /\ Done(MainThread)
    /\ op[MainThread] = "get_jobs_job_reports"
    /\ response[MainThread].status_code = 404
    /\ steps[MainThread] = <<"validate", "build", "call", "status">>
    /\ outcome[MainThread].kind = "raise"

\* The values of an argument that Python takes for false and that are not
\* None.
Falsy == {v \in OptionalValues : ~Truthy(v)}

\* C18: an optional argument given as False, 0 or '' is a provided one: in
\* every request sent its name is a key of the query mapping, with that
\* very value (home=False of get_activities, offsetTimeMs=0 of
\* add_live_broadcasts_control, q='' of get_search and every other one).
C18_FalsyValuesAreProvided ==
    /\ Falsy = {PyBool("False"), PyInt("0"), PyStr("")}
    /\ \A t \in Threads : \A i \in DOMAIN sent[t] :
          \A k \in Range(Optional(op[t])) :
              args[t][k] \in Falsy =>
                  /\ k \in DOMAIN sent[t][i].params
                  /\ sent[t][i].params[k] = args[t][k]
                  /\ sent[t][i].params[k].type = args[t][k].type

\* get_activities has sent its request with home = False.
C18_Witness ==
    /\ op[MainThread] = "get_activities"
    /\ args[MainThread]["home"] = PyBool("False")
    /\ Len(sent[MainThread]) = 1
    /\ "home" \in DOMAIN sent[MainThread][1].params
    /\ sent[MainThread][1].params["home"] = PyBool("False")

\* The URLs of the reporting endpoints, written out.
ReportingOps ==
    {"get_jobs", "delete_jobs_job", "get_jobs_job_reports",
     "get_jobs_job_reports_report", "get_media_resource_name", "get_reporttypes"}
ReportingUrl(o, a) ==
    CASE o = "get_jobs" ->
           "https://www.googleapis.com/youtube/v3/v1/jobs"
      [] o = "delete_jobs_job" ->
           "https://www.googleapis.com/youtube/v3/v1/jobs/" \o a["jobId"].s
      [] o = "get_jobs_job_reports" ->
           "https://www.googleapis.com/youtube/v3/v1/jobs/" \o a["jobId"].s
               \o "/reports"
      [] o = "get_jobs_job_reports_report" ->
           "https://www.googleapis.com/youtube/v3/v1/jobs/" \o a["jobId"].s
               \o "/reports/" \o a["reportId"].s
      [] o = "get_media_resource_name" ->
           "https://www.googleapis.com/youtube/v3/v1/media/" \o a["resourceName"].s
      [] o = "get_reporttypes" ->
           "https://www.googleapis.com/youtube/v3/v1/reportTypes"

\* The path template of o starts with the base, names the base nowhere
\* else, and has one placeholder for each required parameter of o, in the
\* order of the signature, and no other placeholder.
TemplateWellFormed(o) ==
    LET tmpl == UrlTemplate(o)
    IN  /\ Len(tmpl) >= 2
        /\ tmpl[1] = <<"attr", "base_url">>
        /\ \A i \in 2..Len(tmpl) : tmpl[i][1] \in {"lit", "param"}
        /\ tmpl[2][1] = "lit"
        /\ SelectSeq(tmpl, LAMBDA seg : seg[1] = "param")
              = [i \in DOMAIN Required(o) |-> <<"param", Required(o)[i]>>]

\* The operations that call the client method of o with the template of o.
SameVerbAndTemplate(o) ==
    {o2 \in HttpOps : /\ ClientMethod(o2) = ClientMethod(o)
                      /\ UrlTemplate(o2) = UrlTemplate(o)}

\* C19: the URL of every request sent is the base
\* 'https://www.googleapis.com/youtube/v3' followed by the path template of
\* the operation with the required arguments put verbatim at their
\* placeholders; the six reporting endpoints go to /v1/jobs,
\* /v1/jobs/{jobId}, /v1/jobs/{jobId}/reports,
\* /v1/jobs/{jobId}/reports/{reportId}, /v1/media/{resourceName} and
\* /v1/reportTypes under that base; and, as each request leaves, no other
\* operation that calls the same client method has the same template.
C19_UrlIsBasePlusTemplate ==
    \A t \in Threads : \A i \in DOMAIN sent[t] :
          /\ TemplateWellFormed(op[t])
          /\ pc[t] = "await" => SameVerbAndTemplate(op[t]) = {op[t]}
          /\ sent[t][i].url =
                "https://www.googleapis.com/youtube/v3"
                    \o FormatUrl(Tail(UrlTemplate(op[t])), args[t], "")
          /\ op[t] \in ReportingOps =>
                sent[t][i].url = ReportingUrl(op[t], args[t])

\* get_jobs_job_reports_report has sent its request for job 'j1' and
\* report 'j1'.
C19_Witness ==
    /\ op[MainThread] = "get_jobs_job_reports_report"
    /\ args[MainThread]["jobId"] = PyStr("j1")
    /\ args[MainThread]["reportId"] = PyStr("j1")
    /\ Len(sent[MainThread]) = 1
    /\ sent[MainThread][1].url =
          "https://www.googleapis.com/youtube/v3/v1/jobs/j1/reports/j1"

\* get_captions is invoked by t with video_id = None.
CaptionsOfNone(t) ==
    /\ op[t] = "get_captions"
    /\ args[t]["video_id"] = None

\* C20: get_captions with video_id = None never reaches its try block: the
\* transcript collaborator is not called, and the invocation ends with the
\* plain ValueError "Missing required parameter 'video_id'", which has no
\* context and is not the wrapped transcript failure.
C20_CaptionsOfNoneIsMissingParameter ==
    \A t \in Threads :
        CaptionsOfNone(t) =>
            /\ pc[t] \in {"validate", "done"}
            /\ fetched[t] = <<>>
            /\ transcript[t] = <<>>
            /\ IsPrefix(steps[t], <<"validate">>)
            /\ Done(t) =>
                  /\ outcome[t] =
                        Raised(Exc("ValueError",
                                   "Missing required parameter 'video_id'",
                                   <<>>, <<>>))
                  /\ ~IsTranscriptUnavailable(outcome[t])

\* get_captions(None) has ended.
C20_Witness ==
    /\ CaptionsOfNone(MainThread)
    /\ Done(MainThread)
    /\ outcome[MainThread].kind = "raise"
    /\ outcome[MainThread].exc.type = "ValueError"
    /\ fetched[MainThread] = <<>>

\* The error of a check: ValueError("Missing required parameter '<p>'").
MissingParameterError(p) ==
    Raised(Exc("ValueError", "Missing required parameter '" \o p \o "'", <<>>, <<>>))

\* C21: get_jobs_job_reports_report checks jobId, then reportId: with
\* jobId = None it fails naming 'jobId', whatever reportId is; it fails
\* naming 'reportId' when jobId is not None and reportId is None; in each
\* of these cases no request is sent.
C21_ReportChecksInDeclarationOrder ==
    \A t \in Threads :
        op[t] = "get_jobs_job_reports_report" =>
            /\ (args[t]["jobId"] = None \/ args[t]["reportId"] = None) =>
                  /\ sent[t] = <<>>
                  /\ url[t] = ""
            /\ (Done(t) /\ args[t]["jobId"] = None) =>
                  outcome[t] = MissingParameterError("jobId")
            /\ (Done(t) /\ args[t]["jobId"] # None /\ args[t]["reportId"] = None) =>
                  outcome[t] = MissingParameterError("reportId")

\* get_jobs_job_reports_report(None, None) has ended, naming 'jobId'.
C21_Witness ==
    /\ Done(MainThread)
    /\ op[MainThread] = "get_jobs_job_reports_report"
    /\ args[MainThread]["jobId"] = None
    /\ args[MainThread]["reportId"] = None
    /\ outcome[MainThread] = MissingParameterError("jobId")
    /\ sent[MainThread] = <<>>

\* Every required argument of the invocation of t is given (is not None).
AllRequiredGiven(t) ==
    \A p \in Range(Required(op[t])) : args[t][p] # None

\* C22: the checks reject None and nothing else: an HTTP operation whose
\* required arguments are all given, the empty string included, is never
\* ended by a check; it sends one request, and the URL of that request has
\* the value as it is at its place in the path (nothing for '').
C22_OnlyNoneIsRejected ==
    \A t \in Threads :
        (IsHttpOp(op[t]) /\ Required(op[t]) # <<>> /\ AllRequiredGiven(t)) =>
            /\ pc[t] \in {"await", "status", "decode", "done"} =>
                  /\ Len(sent[t]) = 1
                  /\ sent[t][1].url = ReportingUrl(op[t], args[t])
            /\ Done(t) =>
                  \A p \in Range(Required(op[t])) :
                      outcome[t] # MissingParameterError(p)
            /\ (op[t] = "delete_jobs_job" /\ args[t]["jobId"] = PyStr("")
                     /\ sent[t] # <<>>) =>
                  sent[t][1].url = "https://www.googleapis.com/youtube/v3/v1/jobs/"
            /\ (op[t] = "get_media_resource_name"
                     /\ args[t]["resourceName"] = PyStr("") /\ sent[t] # <<>>) =>
                  sent[t][1].url = "https://www.googleapis.com/youtube/v3/v1/media/"

\* delete_jobs_job('') has sent its one request, to .../v1/jobs/ .
C22_Witness ==
    /\ Done(MainThread)
    /\ op[MainThread] = "delete_jobs_job"
    /\ args[MainThread]["jobId"] = PyStr("")
    /\ Len(sent[MainThread]) = 1
    /\ sent[MainThread][1].url = "https://www.googleapis.com/youtube/v3/v1/jobs/"

\* C23: the keys of the query mapping of every request are optional
\* parameters of the operation that sends it; jobId, reportId and
\* resourceName, the required path parameters, are never keys, and the
\* query mapping of get_media_resource_name is empty.
C23_QueryKeysAreOptionalNames ==
    \A t \in Threads :
        /\ \A i \in DOMAIN sent[t] :
              LET keys == DOMAIN sent[t][i].params
              IN  /\ keys \subseteq Range(Optional(op[t]))
                  /\ keys \cap Range(Required(op[t])) = {}
                  /\ keys \cap {"jobId", "reportId", "resourceName"} = {}
                  /\ op[t] = "get_media_resource_name" => keys = {}
        /\ DOMAIN query_params[t] \cap {"jobId", "reportId", "resourceName"} = {}

\* get_media_resource_name('j1') has sent its request, with no query.
C23_Witness ==
    /\ op[MainThread] = "get_media_resource_name"
    /\ args[MainThread]["resourceName"] = PyStr("j1")
    /\ Len(sent[MainThread]) = 1
    /\ sent[MainThread][1].params = <<>>
    /\ sent[MainThread][1].url = "https://www.googleapis.com/youtube/v3/v1/media/j1"

\* C24: get_captions never hands a request to the HTTP client; with a
\* video_id that is not None it asks the transcript collaborator once, for
\* that very video id, and never again, whether the fetch returns or
\* raises.
C24_CaptionsFetchesOnceAndSendsNothing ==
    \A t \in Threads :
        op[t] = "get_captions" =>
            /\ sent[t] = <<>>
            /\ url[t] = "" /\ response[t] = NoResponse
            /\ Len(fetched[t]) <= 1
            /\ \A i \in DOMAIN fetched[t] : fetched[t][i] = args[t]["video_id"]
            /\ (args[t]["video_id"] # None
                    /\ pc[t] \in {"fetching", "join", "done"}) =>
                  fetched[t] = <<args[t]["video_id"]>>

\* get_captions('j1') has ended after its one fetch raised "video
\* unavailable".
C24_Witness ==
    /\ Done(MainThread)
    /\ op[MainThread] = "get_captions"
    /\ fetched[MainThread] = <<PyStr("j1")>>
    /\ sent[MainThread] = <<>>
    /\ outcome[MainThread].kind = "raise"
    /\ outcome[MainThread].exc.context[1].type = "VideoUnavailable"

\* C25: when the fetch returns no snippet, get_captions returns the empty
\* string and raises nothing; when it returns one snippet (its text a
\* string), get_captions returns that text as it is, with no space added.
C25_NoSnippetOrOneSnippet ==
    \A t \in Threads :
        Joined(t) =>
            /\ Len(transcript[t]) = 0 => outcome[t] = Returned(PyStr(""))
            /\ (Len(transcript[t]) = 1 /\ AllTextsAreStrings(transcript[t])) =>
                  /\ outcome[t] = Returned(transcript[t][1].text)
                  /\ Len(outcome[t].value.s) = Len(transcript[t][1].text.s)

\* The fetch returned no snippet and get_captions has returned ''.
C25_Witness ==
    /\ Joined(MainThread)
    /\ transcript[MainThread] = <<>>
    /\ outcome[MainThread] = Returned(PyStr(""))

\* The text get_captions gives for snippets (their texts strings), and the
\* number of characters of the texts of snippets.
TextOf(snippets) == JoinTranscript(PyStr("j1"), snippets).value.s
RECURSIVE TotalLength(_)
TotalLength(snippets) ==
    IF snippets = <<>> THEN 0
    ELSE Len(Head(snippets).text.s) + TotalLength(Tail(snippets))

\* C26: the text of a transcript cut anywhere into two non-empty parts A
\* and B is the text of A, one space, the text of B; every character of
\* every snippet text is in it (nothing trimmed, left out or merged), with
\* one space for each of the n - 1 joints.
C26_JoiningIsCompositional ==
    \A t \in Threads :
        (Joined(t) /\ AllTextsAreStrings(transcript[t])) =>
            LET n == Len(transcript[t])
            IN  /\ \A k \in 1..(n - 1) :
                      outcome[t].value.s =
                          TextOf(SubSeq(transcript[t], 1, k)) \o " "
                              \o TextOf(SubSeq(transcript[t], k + 1, n))
                /\ n >= 1 =>
                      Len(outcome[t].value.s) = TotalLength(transcript[t]) + (n - 1)

\* The snippets Hello, '', Hello have given 'Hello  Hello': the empty text
\* and the repeated one are both kept.
C26_Witness ==
    /\ Joined(MainThread)
    /\ SnippetTexts(transcript[MainThread])
          = <<PyStr("Hello"), PyStr(""), PyStr("Hello")>>
    /\ outcome[MainThread] = Returned(PyStr("Hello  Hello"))

\* C27: whatever is raised inside the try block of get_captions comes out
\* as the wrapper: a failure of the join (a snippet text that is not a
\* string) ends, like a failure of the fetch, in
\* Exception("Failed to retrieve transcript for video <id>: <message>") with
\* the original failure as its context; the only other error of
\* get_captions is the missing-parameter error.
C27_TryBlockWrapsEveryFailure ==
    \A t \in Threads :
        (Done(t) /\ op[t] = "get_captions") =>
            /\ (Joined(t) /\ ~AllTextsAreStrings(transcript[t])) =>
                  /\ outcome[t].kind = "raise"
                  /\ outcome[t].exc.type = "Exception"
                  /\ Len(outcome[t].exc.context) = 1
                  /\ outcome[t].exc.context[1].type = "TypeError"
            /\ outcome[t].kind = "raise" =>
                  \/ outcome[t] = MissingParameterError("video_id")
                  \/ /\ outcome[t].exc.type = "Exception"
                     /\ Len(outcome[t].exc.context) = 1
                     /\ outcome[t].exc.msg =
                           "Failed to retrieve transcript for video "
                               \o args[t]["video_id"].s \o ": "
                               \o outcome[t].exc.context[1].msg

\* The one snippet fetched for video j1 has no text and the join has
\* failed.
C27_Witness ==
    /\ Joined(MainThread)
    /\ args[MainThread]["video_id"] = PyStr("j1")
    /\ SnippetTexts(transcript[MainThread]) = <<None>>
    /\ outcome[MainThread].kind = "raise"
    /\ outcome[MainThread].exc.msg =
          "Failed to retrieve transcript for video j1: sequence item 0: expected str instance, NoneType found"

====
